---- MODULE Spec2Model ----
(***************************************************************************)
(* Model of the OTP service of src/index.js: the two handlers              *)
(* POST /otp/request and POST /otp/verify running on concurrent            *)
(* connections against the three MySQL tables otps, rate_limits and        *)
(* idempotency declared in the DDL at the head of the file.                *)
(*                                                                         *)
(* Every `await` of a handler is a scheduling point, so each statement     *)
(* sent to the database is one action.  Times are in milliseconds; the     *)
(* TIMESTAMP columns of the DDL keep whole seconds.                         *)
(*                                                                         *)
(* The database is InnoDB: a locking read holds its row locks until the    *)
(* transaction ends, and under REPEATABLE READ (gapLocking) also a lock on *)
(* the index range it scanned, taken here per (user_id, purpose).  A       *)
(* statement that waits for a lock is an action that is not enabled; lock  *)
(* wait timeouts and the 400 answers to malformed requests are left out.   *)
(***************************************************************************)
EXTENDS Integers, Sequences, FiniteSets, TLC

\* ------------------------------------------------------------------ bounds
NumProcs == 2        \* concurrent connections modelled (the pool has 10)
MaxCalls == 2        \* calls started in one behaviour
MaxTicks == 1        \* times the clock moves in one behaviour

\* ------------------------------------------------------- program constants
cooldownPeriodMs == 15 * 60 * 1000   \* getRemainingCooldown
tenMinutesInMs == 10 * 60 * 1000     \* idempotency freshness window
ttlMs == 5 * 60 * 1000               \* expiresAt = Date.now() + 5 * 60 * 1000
windowMs == 15 * 60 * 1000           \* NOW() - INTERVAL '15' MINUTE
userLimit == 3                       \* userRequests.length >= 3
ipLimit == 8                         \* ipRequests.length >= 8
maxAttempts == 3                     \* newAttempts >= 3
ttl == 300                           \* ttl: 300 of the 201 body

HalfSecond == 1000 \div 2

Procs == 1..NumProcs
Users == {1}
Purposes == {"login", "reset"}
Ips == {"10.0.0.1"}
IdemKeys == {"k1", "k2"}                 \* the keys the calls arrive with
HistKeys == {"h1", "h2", "h3", "h4"}     \* the keys of calls made before
AllKeys == IdemKeys \cup HistKeys
GeneratedCodes == {"123456"}
SubmittedCodes == {"123456", "000000"}
\* the instants the clock moves on to: the ends of the 5, 10 and 15 minutes
\* that begin at 0, and half a second and a second past the last (a
\* behaviour starts at 0, at half a second, or where its history ends)
Instants ==
    {ttlMs, tenMinutesInMs, cooldownPeriodMs + HalfSecond,
     cooldownPeriodMs + 1000}

VARIABLES now, gapLocking, otps, nextId, rate_limits, idempotency, pc, loc, resp, calls, ticks

vars == <<now, gapLocking, otps, nextId, rate_limits, idempotency, pc, loc, resp, calls, ticks>>

\* ------------------------------------------------------------ arithmetic
Max(a, b) == IF a >= b THEN a ELSE b

\* Math.ceil(x / d) for d > 0 and any integer x
MathCeilDiv(x, d) == IF x >= 0 THEN (x + d - 1) \div d ELSE -((-x) \div d)

\* NOW() / CURRENT_TIMESTAMP in a TIMESTAMP column: whole seconds, truncated
DbNow(t) == (t \div 1000) * 1000

\* a JS Date bound into a TIMESTAMP column: rounded to the nearest second
DbRound(t) == ((t + 500) \div 1000) * 1000

\* getRemainingCooldown(earliestRequestTime), with `now` the time of the call
getRemainingCooldown(earliestRequestTime, t) ==
    LET elapsedTimeMs == t - earliestRequestTime
    IN Max(0, MathCeilDiv(cooldownPeriodMs - elapsedTimeMs, 1000))

\* ------------------------------------------------------------- JSON text
\* The keys a response body may hold, in the order the handlers write them.
BodyKeys ==
    <<"reason", "cooldown_seconds_remaining", "otp_id", "ttl",
      "remaining_user_requests", "remaining_ip_requests", "message",
      "attempts_remaining">>

\* JSON.stringify(obj): the members of obj as a text of key/value pairs
JSONStringify(obj) ==
    LET ks == SelectSeq(BodyKeys, LAMBDA k : k \in DOMAIN obj)
    IN [i \in 1..Len(ks) |-> <<ks[i], obj[ks[i]]>>]

\* JSON.parse(text): the object whose members are the pairs of text
JSONParse(text) ==
    [k \in {text[i][1] : i \in DOMAIN text} |->
        text[CHOOSE i \in DOMAIN text : text[i][1] = k][2]]

\* ------------------------------------------------------------ the tables
NoRow ==
    [id |-> 0, user_id |-> 0, purpose |-> "", otp_code |-> "", status |-> "",
     attempts |-> 0, expires_at |-> 0]

NoEvent == [user_id |-> 0, ip_address |-> "", created_at |-> 0]

\* a row of idempotency; stored_at (the time of the INSERT to the
\* millisecond) and returned (the body the storing call answered with) are
\* history, kept in no column
NoEntry ==
    [response_status_code |-> 0, response_body |-> <<>>, created_at |-> 0,
     stored_at |-> 0, returned |-> [reason |-> ""]]


\* rows of otps for (user_id, purpose)
PairRows(tbl, u, pu) == {r \in tbl : r.user_id = u /\ r.purpose = pu}

\* rows of otps for (user_id, purpose) with status = 'active'
ActiveRows(tbl, u, pu) == {r \in PairRows(tbl, u, pu) : r.status = "active"}

\* the row of (user_id, purpose) with status = 'active', if there is one
ActiveRow(tbl, u, pu) ==
    IF ActiveRows(tbl, u, pu) = {} THEN NoRow
    ELSE CHOOSE r \in ActiveRows(tbl, u, pu) : TRUE

\* the table without its unique key
UniqueKeyAbsent(tbl, r) == FALSE

\* UNIQUE KEY unique_active_otp (user_id, purpose, status): would storing row
\* `r` (new, or the new version of the row with its id) break the key?
UniqueKeyViolated(tbl, r) ==
    \E o \in tbl : /\ o.id # r.id
                   /\ o.user_id = r.user_id
                   /\ o.purpose = r.purpose
                   /\ o.status = r.status

\* the created_at column of a sequence of rate_limits rows, ascending
RECURSIVE SortAsc(_)
SortAsc(s) ==
    IF s = <<>> THEN <<>>
    ELSE LET i == CHOOSE i \in DOMAIN s : \A j \in DOMAIN s : s[i] <= s[j]
         IN <<s[i]>> \o SortAsc([k \in 1..(Len(s) - 1) |-> IF k < i THEN s[k] ELSE s[k + 1]])

\* SELECT created_at FROM rate_limits WHERE user_id = ? AND
\*   created_at >= NOW() - INTERVAL '15' MINUTE ORDER BY created_at ASC
SelectUserRequests(u, t) ==
    LET hit == SelectSeq(rate_limits, LAMBDA e :
                   e.user_id = u /\ e.created_at >= DbNow(t) - windowMs)
    IN SortAsc([i \in 1..Len(hit) |-> hit[i].created_at])

\* the same for WHERE ip_address = ?
SelectIpRequests(ip, t) ==
    LET hit == SelectSeq(rate_limits, LAMBDA e :
                   e.ip_address = ip /\ e.created_at >= DbNow(t) - windowMs)
    IN SortAsc([i \in 1..Len(hit) |-> hit[i].created_at])

\* ------------------------------------------------- a handler's locals
\* what a call was answered, and the id of the otps row it had read
NoOutcome == [status |-> 0, body |-> [reason |-> ""], read |-> 0]

\* What one running handler holds between its awaits.  The fields from
\* known on are history, read by no handler: whether the call's key had an
\* entry when the call started, and what the call found under the key
\* ("none", "fresh" when it replayed it, "stale" when the entry was stored
\* 10 minutes before or earlier, "early" when its created_at alone is that
\* old); whether the call overlapped a request for its pair under another
\* key (raced), a call with its own arguments (twin) or any call on its
\* pair (met), and what that twin answered; the rows its two rate SELECTs
\* would return when its own event is inserted; the
\* identity's events in the 15 minutes ending at its rate check and the
\* earliest of them; the time its cooldown was computed; and the active
\* row its pair had when it started.
NoCall ==
    [op |-> "none", user_id |-> 0, purpose |-> "", ip_address |-> "",
     idempotencyKey |-> "", otp_code |-> "",
     userRequests |-> <<>>, ipRequests |-> <<>>,
     status |-> 0, response |-> [reason |-> ""],
     otp |-> NoRow, row |-> NoRow, event |-> NoEvent, now |-> 0,
     known |-> FALSE, seenEntry |-> "", raced |-> FALSE, twin |-> FALSE,
     met |-> FALSE, twinResp |-> NoOutcome, userAtRecord |-> 0, ipAtRecord |-> 0,
     inWindow |-> 0, earliest |-> 0, cooldownAt |-> 0, target |-> NoRow]

NoResp == [proc |-> 0, status |-> 0, body |-> [reason |-> ""], call |-> NoCall]

InFlight(q) == pc[q] # "idle"

\* two calls with the same arguments: requests under one key for one pair
\* and origin, or verifications of one pair with one code
Twins(a, b) ==
    /\ a.op = b.op
    /\ a.user_id = b.user_id
    /\ a.purpose = b.purpose
    /\ a.ip_address = b.ip_address
    /\ a.idempotencyKey = b.idempotencyKey
    /\ a.otp_code = b.otp_code

\* two requests for one pair under different keys
Racers(a, b) ==
    /\ a.op = "request" /\ b.op = "request"
    /\ a.user_id = b.user_id
    /\ a.purpose = b.purpose
    /\ a.idempotencyKey # b.idempotencyKey

\* res.status(status).json(body) and connection.release(): resp is the
\* response being sent, with the locals of the call that sends it
Respond(p, l, status, body) ==
    /\ pc' = [pc EXCEPT ![p] = "idle"]
    /\ resp' = [proc |-> p, status |-> status, body |-> body, call |-> l]
    /\ loc' = [q \in Procs |->
                  IF q = p THEN NoCall
                  ELSE IF InFlight(q) /\ Twins(loc[q], l)
                  THEN [loc[q] EXCEPT !.twinResp =
                           [status |-> status, body |-> body, read |-> l.otp.id]]
                  ELSE loc[q]]

\* catch (error): connection.rollback() and the 500 response
Fail(p, l) == Respond(p, l, 500, [reason |-> "Internal Server Error"])

\* two calls on one (user_id, purpose)
SamePair(a, b) == a.user_id = b.user_id /\ a.purpose = b.purpose

\* a new call on connection p meets the calls in flight
Meet(p, l) ==
    [q \in Procs |->
        IF q = p
        THEN [l EXCEPT !.twin = \E r \in Procs \ {p} : InFlight(r) /\ Twins(loc[r], l),
                       !.raced = \E r \in Procs \ {p} : InFlight(r) /\ Racers(loc[r], l),
                       !.met = \E r \in Procs \ {p} : InFlight(r) /\ SamePair(loc[r], l)]
        ELSE IF InFlight(q)
        THEN [loc[q] EXCEPT !.twin = @ \/ Twins(loc[q], l),
                            !.raced = @ \/ Racers(loc[q], l),
                            !.met = @ \/ SamePair(loc[q], l)]
        ELSE loc[q]]

\* ------------------------------------------------------------ row locks
OnPair(q, u, pu) == loc[q].user_id = u /\ loc[q].purpose = pu

\* q's transaction holds an exclusive lock on a row of (u, pu): the rows a
\* verify read FOR UPDATE, the active row a request read FOR UPDATE, or the
\* row a request inserted and has not committed
HoldsRowLock(q, u, pu) ==
    /\ OnPair(q, u, pu)
    /\ \/ pc[q] \in {"v_update", "v_commit"}
       \/ pc[q] = "v_rollback" /\ loc[q].otp # NoRow
       \/ pc[q] \in {"r_rollback_409", "r_insert_rate", "r_commit"}

\* q holds a lock on the row with status 'active' of (u, pu)
HoldsActiveLock(q, u, pu) ==
    /\ HoldsRowLock(q, u, pu)
    /\ \/ loc[q].op = "request"
       \/ ActiveRows(otps, u, pu) # {}

\* q holds a gap lock on the index range of (u, pu) (REPEATABLE READ only):
\* a locking read takes it on the range it scanned
HoldsGapLock(q, u, pu) ==
    /\ gapLocking
    /\ OnPair(q, u, pu)
    /\ pc[q] \in {"v_rollback", "v_update", "v_commit",
                  "r_insert_otp", "r_insert_rate", "r_commit"}

\* SELECT ... status = 'active' FOR UPDATE of p waits
SelectActiveBlocked(p) ==
    \E q \in Procs \ {p} : HoldsActiveLock(q, loc[p].user_id, loc[p].purpose)

\* SELECT ... WHERE user_id = ? AND purpose = ? FOR UPDATE of p waits
SelectPairBlocked(p) ==
    \E q \in Procs \ {p} : HoldsRowLock(q, loc[p].user_id, loc[p].purpose)

\* INSERT INTO otps of p waits: for a gap lock on the range, for an
\* uncommitted row with the same key, or for the lock on the active row
InsertBlocked(p) ==
    \E q \in Procs \ {p} :
        \/ HoldsGapLock(q, loc[p].user_id, loc[p].purpose)
        \/ HoldsActiveLock(q, loc[p].user_id, loc[p].purpose)

\* p's INSERT and another transaction's INSERT wait for each other's gap lock
Deadlocked(p) ==
    /\ pc[p] = "r_insert_otp"
    /\ gapLocking
    /\ \E q \in Procs \ {p} :
          pc[q] = "r_insert_otp" /\ OnPair(q, loc[p].user_id, loc[p].purpose)

\* ------------------------------------------------------------------ Init
\* INSERT INTO idempotency (idempotency_key, response_status_code,
\* response_body) at time t: created_at is the column's CURRENT_TIMESTAMP
CacheEntry(status, body, t) ==
    [response_status_code |-> status, response_body |-> JSONStringify(body),
     created_at |-> DbNow(t), stored_at |-> t, returned |-> body]

\* The service starts on empty tables, or on the tables that earlier calls
\* of one client (user 1, one origin), made one after the other, have left.
\* Each history below lists those calls; Issued, Logged and Cached are the
\* otps row, the rate_limits row and the idempotency row that a request
\* answered with 201 at time t leaves.
Issued(id, pu, st, att, t) ==
    [id |-> id, user_id |-> 1, purpose |-> pu, otp_code |-> "123456",
     status |-> st, attempts |-> att, expires_at |-> DbRound(t + ttlMs)]

Logged(t) == [user_id |-> 1, ip_address |-> "10.0.0.1", created_at |-> DbNow(t)]

Cached(id, before, t) ==
    CacheEntry(201, [otp_id |-> id, ttl |-> ttl,
                     remaining_user_requests |-> 2 - before,
                     remaining_ip_requests |-> 7 - before], t)

Entries(given) == [k \in AllKeys |-> IF k \in DOMAIN given THEN given[k] ELSE NoEntry]

\* nothing has happened yet; the clock stands half a second into a second
Fresh ==
    [now |-> HalfSecond, otps |-> {}, nextId |-> 1, rate_limits |-> <<>>,
     idempotency |-> Entries(<<>>)]

\* at 0.5 s: request login (h1), verify with the code; request login (h2),
\* three verifies with a wrong code; request login (k2), two verifies with a
\* wrong code
Worn ==
    [now |-> HalfSecond,
     otps |-> {Issued(1, "login", "used", 0, HalfSecond),
               Issued(2, "login", "locked", 3, HalfSecond),
               Issued(3, "login", "active", 2, HalfSecond)},
     nextId |-> 4,
     rate_limits |-> <<Logged(HalfSecond), Logged(HalfSecond), Logged(HalfSecond)>>,
     idempotency |-> Entries([h1 |-> Cached(1, 0, HalfSecond),
                              h2 |-> Cached(2, 1, HalfSecond),
                              k2 |-> Cached(3, 2, HalfSecond)])]

\* at 0: request login (h1); at 10 min: verify (the row expires), request
\* login (h2)
Lapsed ==
    [now |-> tenMinutesInMs,
     otps |-> {Issued(1, "login", "expired", 0, 0),
               Issued(2, "login", "active", 0, tenMinutesInMs)},
     nextId |-> 3,
     rate_limits |-> <<Logged(0), Logged(tenMinutesInMs)>>,
     idempotency |-> Entries([h1 |-> Cached(1, 0, 0),
                              h2 |-> Cached(2, 1, tenMinutesInMs)])]

\* at 0: request login (h1), verify with the code, request reset (h2),
\* verify with the code
Spent ==
    [now |-> 0,
     otps |-> {Issued(1, "login", "used", 0, 0), Issued(2, "reset", "used", 0, 0)},
     nextId |-> 3,
     rate_limits |-> <<Logged(0), Logged(0)>>,
     idempotency |-> Entries([h1 |-> Cached(1, 0, 0), h2 |-> Cached(2, 1, 0)])]

\* at 0: request login (h1), verify with the code; at 5 min: request reset
\* (h2), verify with the code, then a request for login (h3) and one for
\* reset (h4) that ran together, each past its rate check before the other
\* committed
Raced ==
    [now |-> ttlMs,
     otps |-> {Issued(1, "login", "used", 0, 0),
               Issued(2, "reset", "used", 0, ttlMs),
               Issued(3, "login", "active", 0, ttlMs),
               Issued(4, "reset", "active", 0, ttlMs)},
     nextId |-> 5,
     rate_limits |-> <<Logged(0), Logged(ttlMs), Logged(ttlMs), Logged(ttlMs)>>,
     idempotency |-> Entries([h1 |-> Cached(1, 0, 0), h2 |-> Cached(2, 1, ttlMs),
                              h3 |-> Cached(3, 2, ttlMs), h4 |-> Cached(4, 2, ttlMs)])]

InitFrom(h) ==
    /\ now = h.now
    /\ gapLocking \in BOOLEAN
    /\ otps = h.otps
    /\ nextId = h.nextId
    /\ rate_limits = h.rate_limits
    /\ idempotency = h.idempotency
    /\ pc = [p \in Procs |-> "idle"]
    /\ loc = [p \in Procs |-> NoCall]
    /\ resp = NoResp
    /\ calls = MaxCalls
    /\ ticks = MaxTicks

Init == InitFrom(Fresh)

InitLater == \E h \in {Worn, Lapsed, Spent, Raced} : InitFrom(h)

\* the clock moves on to a later instant
Tick ==
    /\ ticks > 0
    /\ ticks' = ticks - 1
    /\ \E t \in Instants : t > now /\ now' = t
    /\ resp' = NoResp
    /\ UNCHANGED <<gapLocking, otps, nextId, rate_limits, idempotency, pc, loc, calls>>

\* ------------------------------------------------------ POST /otp/request
\* INSERT INTO idempotency (idempotency_key, response_status_code,
\* response_body): the PRIMARY KEY refuses a second row under the key
IdempotencyTaken(k) == idempotency[k] # NoEntry

\* the handler starts: the request is read, a connection is taken and the
\* idempotency SELECT is sent
StartRequest(p, u, pu, ip, k) ==
    /\ pc[p] = "idle"
    /\ pc' = [pc EXCEPT ![p] = "r_idem"]
    /\ loc' = Meet(p, [NoCall EXCEPT !.op = "request", !.user_id = u,
                          !.purpose = pu, !.ip_address = ip,
                          !.idempotencyKey = k,
                          !.known = IdempotencyTaken(k),
                          !.target = ActiveRow(otps, u, pu)])
    /\ calls > 0
    /\ calls' = calls - 1
    /\ resp' = NoResp
    /\ UNCHANGED <<now, gapLocking, otps, nextId, rate_limits, idempotency, ticks>>

\* the freshness test with the 5 minutes of the OTP lifetime for its window
IsFreshForTtl(entry, t) == t - entry.created_at < ttlMs

\* now.getTime() - created_at.getTime() < tenMinutesInMs
IsFresh(entry, t) == t - entry.created_at < tenMinutesInMs

\* Step 1: the idempotency check
R_Idem(p) ==
    /\ pc[p] = "r_idem"
    /\ LET entry == idempotency[loc[p].idempotencyKey]
           replay == entry # NoEntry /\ IsFresh(entry, now)
           l == [loc[p] EXCEPT
                   !.seenEntry = IF entry = NoEntry THEN "none"
                                 ELSE IF replay THEN "fresh"
                                 ELSE IF now - entry.stored_at >= tenMinutesInMs
                                 THEN "stale" ELSE "early"]
       IN IF replay
          THEN Respond(p, l, entry.response_status_code,
                       JSONParse(entry.response_body))
          ELSE /\ pc' = [pc EXCEPT ![p] = "r_rate_user"]
               /\ loc' = [loc EXCEPT ![p] = l]
               /\ resp' = NoResp
    /\ UNCHANGED <<now, gapLocking, otps, nextId, rate_limits, idempotency, calls, ticks>>

\* the stored times of the identity's events
UserTimes(u) ==
    {rate_limits[i].created_at :
        i \in {j \in DOMAIN rate_limits : rate_limits[j].user_id = u}}

\* the identity's events in the 15 minutes ending at t, counted and the
\* earliest of them
CountInWindow(u, t) ==
    Cardinality({i \in DOMAIN rate_limits :
        /\ rate_limits[i].user_id = u
        /\ rate_limits[i].created_at <= t
        /\ t - rate_limits[i].created_at <= cooldownPeriodMs})

EarliestInWindow(u, t) ==
    LET in == {c \in UserTimes(u) : c <= t /\ t - c <= cooldownPeriodMs}
    IN IF in = {} THEN 0 ELSE CHOOSE c \in in : \A d \in in : c <= d

\* Step 2: the user's rolling window
R_RateUser(p) ==
    /\ pc[p] = "r_rate_user"
    /\ pc' = [pc EXCEPT ![p] = "r_rate_ip"]
    /\ loc' = [loc EXCEPT ![p].userRequests = SelectUserRequests(loc[p].user_id, now),
                          ![p].inWindow = CountInWindow(loc[p].user_id, now),
                          ![p].earliest = EarliestInWindow(loc[p].user_id, now)]
    /\ resp' = NoResp
    /\ UNCHANGED <<now, gapLocking, otps, nextId, rate_limits, idempotency, calls, ticks>>

\* Step 2: the origin's rolling window, then the two limits; past them
\* beginTransaction and the locking read of the active row are sent
R_RateIp(p) ==
    /\ pc[p] = "r_rate_ip"
    /\ LET ipRequests == SelectIpRequests(loc[p].ip_address, now)
           userRequests == loc[p].userRequests
           l == [loc[p] EXCEPT !.ipRequests = ipRequests, !.cooldownAt = now]
       IN IF Len(userRequests) >= userLimit
          THEN /\ pc' = [pc EXCEPT ![p] = "r_cache"]
               /\ loc' = [loc EXCEPT ![p] =
                     [l EXCEPT !.status = 429,
                               !.response =
                                  [reason |-> "user_rate_limit_exceeded",
                                   cooldown_seconds_remaining |->
                                      getRemainingCooldown(userRequests[1], now)]]]
          ELSE IF Len(ipRequests) >= ipLimit
          THEN /\ pc' = [pc EXCEPT ![p] = "r_cache"]
               /\ loc' = [loc EXCEPT ![p] =
                     [l EXCEPT !.status = 429,
                               !.response =
                                  [reason |-> "ip_rate_limit_exceeded",
                                   cooldown_seconds_remaining |->
                                      getRemainingCooldown(ipRequests[1], now)]]]
          ELSE /\ pc' = [pc EXCEPT ![p] = "r_select_active"]
               /\ loc' = [loc EXCEPT ![p] = l]
    /\ resp' = NoResp
    /\ UNCHANGED <<now, gapLocking, otps, nextId, rate_limits, idempotency, calls, ticks>>

\* INSERT INTO idempotency of the outcome (429, 409 or 201), then the
\* response; a key already stored makes the INSERT throw
R_Cache(p) ==
    /\ pc[p] = "r_cache"
    /\ LET k == loc[p].idempotencyKey
       IN IF IdempotencyTaken(k)
          THEN /\ Fail(p, loc[p])
               /\ UNCHANGED idempotency
          ELSE /\ idempotency' = [idempotency EXCEPT ![k] =
                     CacheEntry(loc[p].status, loc[p].response, now)]
               /\ Respond(p, loc[p], loc[p].status, loc[p].response)
    /\ UNCHANGED <<now, gapLocking, otps, nextId, rate_limits, calls, ticks>>

\* Step 3: SELECT id FROM otps ... status = 'active' FOR UPDATE
R_SelectActive(p) ==
    /\ pc[p] = "r_select_active"
    /\ ~SelectActiveBlocked(p)
    /\ LET activeOtp == ActiveRows(otps, loc[p].user_id, loc[p].purpose)
       IN IF activeOtp # {}
          THEN pc' = [pc EXCEPT ![p] = "r_rollback_409"]
          ELSE pc' = [pc EXCEPT ![p] = "r_insert_otp"]
    /\ resp' = NoResp
    /\ UNCHANGED <<now, gapLocking, otps, nextId, rate_limits, idempotency, loc, calls, ticks>>

\* an active row was found: connection.rollback()
R_Rollback409(p) ==
    /\ pc[p] = "r_rollback_409"
    /\ pc' = [pc EXCEPT ![p] = "r_cache"]
    /\ loc' = [loc EXCEPT ![p].status = 409,
                          ![p].response = [reason |-> "An active OTP already exists."]]
    /\ resp' = NoResp
    /\ UNCHANGED <<now, gapLocking, otps, nextId, rate_limits, idempotency, calls, ticks>>

\* INSERT INTO otps (user_id, purpose, otp_code, expires_at)
R_InsertOtp(p) ==
    /\ pc[p] = "r_insert_otp"
    /\ ~InsertBlocked(p)
    /\ \E otpCode \in GeneratedCodes :
          LET row == [id |-> nextId, user_id |-> loc[p].user_id,
                      purpose |-> loc[p].purpose, otp_code |-> otpCode,
                      status |-> "active", attempts |-> 0,
                      expires_at |-> DbRound(now + ttlMs)]
          IN /\ nextId' = nextId + 1
             /\ IF UniqueKeyViolated(otps, row)
                THEN Fail(p, loc[p])
                ELSE /\ pc' = [pc EXCEPT ![p] = "r_insert_rate"]
                     /\ loc' = [loc EXCEPT ![p].row = row]
                     /\ resp' = NoResp
    /\ UNCHANGED <<now, gapLocking, otps, rate_limits, idempotency, calls, ticks>>

\* a server that does not detect the deadlock: no victim is chosen
R_DeadlockUndetected(p) ==
    /\ Deadlocked(p)
    /\ FALSE
    /\ UNCHANGED vars

\* the INSERT is chosen as the victim of a deadlock and throws
R_Deadlock(p) ==
    /\ Deadlocked(p)
    /\ Fail(p, loc[p])
    /\ UNCHANGED <<now, gapLocking, otps, nextId, rate_limits, idempotency, calls, ticks>>

\* INSERT INTO rate_limits (user_id, ip_address)
R_InsertRate(p) ==
    /\ pc[p] = "r_insert_rate"
    /\ pc' = [pc EXCEPT ![p] = "r_commit"]
    /\ loc' = [loc EXCEPT ![p].event =
                  [user_id |-> loc[p].user_id, ip_address |-> loc[p].ip_address,
                   created_at |-> DbNow(now)],
                          ![p].userAtRecord = Len(SelectUserRequests(loc[p].user_id, now)),
                          ![p].ipAtRecord = Len(SelectIpRequests(loc[p].ip_address, now))]
    /\ resp' = NoResp
    /\ UNCHANGED <<now, gapLocking, otps, nextId, rate_limits, idempotency, calls, ticks>>

\* a commit that keeps the otps row and loses the rate_limits row
R_CommitRowOnly(p) ==
    /\ pc[p] = "r_commit"
    /\ otps' = otps \cup {loc[p].row}
    /\ pc' = [pc EXCEPT ![p] = "r_cache"]
    /\ loc' = [loc EXCEPT ![p].status = 201,
                          ![p].response =
                             [otp_id |-> loc[p].row.id,
                              ttl |-> ttl,
                              remaining_user_requests |-> 2 - Len(loc[p].userRequests),
                              remaining_ip_requests |-> 7 - Len(loc[p].ipRequests)]]
    /\ resp' = NoResp
    /\ UNCHANGED <<now, gapLocking, nextId, rate_limits, idempotency, calls, ticks>>

\* connection.commit(), then the 201 body is built
R_Commit(p) ==
    /\ pc[p] = "r_commit"
    /\ otps' = otps \cup {loc[p].row}
    /\ rate_limits' = Append(rate_limits, loc[p].event)
    /\ pc' = [pc EXCEPT ![p] = "r_cache"]
    /\ loc' = [loc EXCEPT ![p].status = 201,
                          ![p].response =
                             [otp_id |-> loc[p].row.id,
                              ttl |-> ttl,
                              remaining_user_requests |-> 2 - Len(loc[p].userRequests),
                              remaining_ip_requests |-> 7 - Len(loc[p].ipRequests)]]
    /\ resp' = NoResp
    /\ UNCHANGED <<now, gapLocking, nextId, idempotency, calls, ticks>>

requestOtp(p) ==
    \/ \E u \in Users, pu \in Purposes, ip \in Ips, k \in IdemKeys :
          StartRequest(p, u, pu, ip, k)
    \/ R_Idem(p)
    \/ R_RateUser(p)
    \/ R_RateIp(p)
    \/ R_Cache(p)
    \/ R_SelectActive(p)
    \/ R_Rollback409(p)
    \/ R_InsertOtp(p)
    \/ R_Deadlock(p)
    \/ R_InsertRate(p)
    \/ R_Commit(p)

\* ------------------------------------------------------- POST /otp/verify
\* the ENUM('active', 'used', 'expired', 'locked') index of a status
StatusRank(st) ==
    CASE st = "active" -> 1 [] st = "used" -> 2 [] st = "expired" -> 3
      [] st = "locked" -> 4 [] OTHER -> 0

\* otpRows[0]: the SELECT has no ORDER BY, so the first row is the first of
\* the access path the server takes: the unique index (user_id, purpose,
\* status) or the primary key
FirstRows(rows) ==
    {r \in rows : \A o \in rows : StatusRank(r.status) <= StatusRank(o.status)}
    \cup {r \in rows : \A o \in rows : r.id <= o.id}

\* the handler starts: beginTransaction and the locking SELECT are sent
StartVerify(p, u, pu, code) ==
    /\ pc[p] = "idle"
    /\ pc' = [pc EXCEPT ![p] = "v_select"]
    /\ loc' = Meet(p, [NoCall EXCEPT !.op = "verify", !.user_id = u,
                          !.purpose = pu, !.otp_code = code,
                          !.target = ActiveRow(otps, u, pu)])
    /\ calls > 0
    /\ calls' = calls - 1
    /\ resp' = NoResp
    /\ UNCHANGED <<now, gapLocking, otps, nextId, rate_limits, idempotency, ticks>>

\* the checks without the first one, the test of the status
VerifyBranchAnyStatus(otp, code, t) ==
    IF otp.expires_at < t
    THEN [write |-> TRUE, row |-> [otp EXCEPT !.status = "expired"],
          status |-> 410, response |-> [reason |-> "code_expired"]]
    ELSE IF otp.otp_code # code
    THEN [write |-> TRUE, row |-> [otp EXCEPT !.attempts = otp.attempts + 1],
          status |-> 401,
          response |-> [reason |-> "wrong_code",
                        attempts_remaining |-> 3 - (otp.attempts + 1)]]
    ELSE [write |-> TRUE, row |-> [otp EXCEPT !.status = "used"], status |-> 200,
          response |-> [message |-> "OTP verified successfully."]]

\* the row and the response of the branch the checks 1 to 3 take for `otp`
\* read at time t with code `code` submitted
VerifyBranch(otp, code, t) ==
    IF otp.status # "active"
    THEN [write |-> FALSE, row |-> otp, status |-> 410,
          response |-> [reason |-> "code_used"]]
    ELSE IF otp.expires_at < t
    THEN [write |-> TRUE, row |-> [otp EXCEPT !.status = "expired"],
          status |-> 410, response |-> [reason |-> "code_expired"]]
    ELSE IF otp.otp_code # code
    THEN LET newAttempts == otp.attempts + 1
         IN IF newAttempts >= maxAttempts
            THEN [write |-> TRUE,
                  row |-> [otp EXCEPT !.attempts = newAttempts, !.status = "locked"],
                  status |-> 401, response |-> [reason |-> "attempts_exceeded"]]
            ELSE [write |-> TRUE, row |-> [otp EXCEPT !.attempts = newAttempts],
                  status |-> 401,
                  response |-> [reason |-> "wrong_code",
                                attempts_remaining |-> 3 - newAttempts]]
    ELSE [write |-> TRUE, row |-> [otp EXCEPT !.status = "used"], status |-> 200,
          response |-> [message |-> "OTP verified successfully."]]

\* SELECT ... FROM otps WHERE user_id = ? AND purpose = ? FOR UPDATE returns;
\* the checks choose the branch and its UPDATE or rollback is sent
V_Select(p) ==
    /\ pc[p] = "v_select"
    /\ ~SelectPairBlocked(p)
    /\ LET otpRows == PairRows(otps, loc[p].user_id, loc[p].purpose)
       IN IF otpRows = {}
          THEN /\ pc' = [pc EXCEPT ![p] = "v_rollback"]
               /\ loc' = [loc EXCEPT ![p].status = 410,
                                     ![p].response = [reason |-> "code_expired"]]
          ELSE \E otp \in FirstRows(otpRows) :
                  LET b == VerifyBranch(otp, loc[p].otp_code, now)
                  IN /\ pc' = [pc EXCEPT ![p] =
                                  IF b.write THEN "v_update" ELSE "v_rollback"]
                     /\ loc' = [loc EXCEPT ![p].otp = otp, ![p].now = now,
                                           ![p].row = b.row,
                                           ![p].status = b.status,
                                           ![p].response = b.response]
    /\ resp' = NoResp
    /\ UNCHANGED <<now, gapLocking, otps, nextId, rate_limits, idempotency, calls, ticks>>

\* connection.rollback() of the branches that write nothing
V_Rollback(p) ==
    /\ pc[p] = "v_rollback"
    /\ Respond(p, loc[p], loc[p].status, loc[p].response)
    /\ UNCHANGED <<now, gapLocking, otps, nextId, rate_limits, idempotency, calls, ticks>>

\* UPDATE otps SET ... WHERE id = ?: the unique key refuses a second row of
\* the pair with the new status, and the handler's catch rolls back
V_Update(p) ==
    /\ pc[p] = "v_update"
    /\ IF UniqueKeyViolated(otps, loc[p].row)
       THEN Fail(p, loc[p])
       ELSE /\ pc' = [pc EXCEPT ![p] = "v_commit"]
            /\ resp' = NoResp
            /\ UNCHANGED loc
    /\ UNCHANGED <<now, gapLocking, otps, nextId, rate_limits, idempotency, calls, ticks>>

\* connection.commit() and the response of the branch
V_Commit(p) ==
    /\ pc[p] = "v_commit"
    /\ otps' = (otps \ {loc[p].otp}) \cup {loc[p].row}
    /\ Respond(p, loc[p], loc[p].status, loc[p].response)
    /\ UNCHANGED <<now, gapLocking, nextId, rate_limits, idempotency, calls, ticks>>

verifyOtp(p) ==
    \/ \E u \in Users, pu \in Purposes, code \in SubmittedCodes :
          StartVerify(p, u, pu, code)
    \/ V_Select(p)
    \/ V_Rollback(p)
    \/ V_Update(p)
    \/ V_Commit(p)

Next ==
    \/ Tick
    \/ \E p \in Procs : requestOtp(p)
    \/ \E p \in Procs : verifyOtp(p)

Spec == Init /\ [][Next]_vars

SpecLater == InitLater /\ [][Next]_vars

\* the statement or the answer connection p's handler is waiting for arrives
Proceeds(p) ==
    \/ R_Idem(p) \/ R_RateUser(p) \/ R_RateIp(p) \/ R_Cache(p)
    \/ R_SelectActive(p) \/ R_Rollback409(p) \/ R_InsertOtp(p) \/ R_Deadlock(p)
    \/ R_InsertRate(p) \/ R_Commit(p)
    \/ V_Select(p) \/ V_Rollback(p) \/ V_Update(p) \/ V_Commit(p)

\* The server answers every statement that waits for no lock, and the event
\* loop resumes the handler that awaits the answer.
FairSpec == Init /\ [][Next]_vars /\ \A p \in Procs : WF_vars(Proceeds(p))

\* ------------------------------------------------------------ properties
\* the answer being sent is `status` with body `body`
Answers(status, body) == resp.status = status /\ resp.body = body

\* the row of otps with the id of `r`, as it is stored now
Stored(r) == {o \in otps : o.id = r.id}

\* C1: in every reachable committed state, each (identity, purpose) pair has
\* at most one otps row whose status is 'active'.
C1_AtMostOneActive ==
    \A u \in Users, pu \in Purposes : Cardinality(ActiveRows(otps, u, pu)) <= 1

\* a request that ran together with another request for its pair is answered
\* 409 while the row the other one committed is the pair's active row
C1_Witness ==
    /\ resp.call.raced
    /\ resp.status = 409
    /\ ActiveRows(otps, resp.call.user_id, resp.call.purpose) # {}

\* C2: a request that overlapped another request for its pair under a
\* different key, for a pair without an active row and below the rate limits,
\* is answered 201 or 409.
C2_RaceIs201Or409 ==
    ( /\ resp.call.op = "request"
      /\ resp.call.raced
      /\ ~resp.call.twin
      /\ resp.call.seenEntry = "none"
      /\ resp.call.target = NoRow
      /\ resp.status # 429 )
    => resp.status \in {201, 409}

\* connection p receives the answer of its idempotency SELECT
IdemStep(p) == pc[p] = "r_idem" /\ pc'[p] # "r_idem"

\* the step answers p's call with what the call that stored `entry` answered
\* and changes no table
Replays(p, entry) ==
    /\ pc'[p] = "idle"
    /\ resp'.proc = p
    /\ resp'.status = entry.response_status_code
    /\ resp'.body = entry.returned
    /\ UNCHANGED <<otps, nextId, rate_limits, idempotency>>

\* C3, as stated: a request that started after an entry was stored under
\* its key, and finds the entry less than 10 minutes after it was stored, is
\* answered with the status and body of the call that stored it, and leaves
\* otps, rate_limits and idempotency unchanged.
C3_ReplayWithinTenMinutes ==
    [][\A p \in Procs :
          LET entry == idempotency[loc[p].idempotencyKey]
          IN (IdemStep(p) /\ loc[p].known
                /\ now - entry.stored_at < tenMinutesInMs)
             => Replays(p, entry)]_vars

\* C3, amended: a request that started after an entry was stored under its
\* key, and finds the entry less than 10 minutes after its created_at (the
\* time it was stored, cut to the whole second), is answered with the
\* status and body of the call that stored it, and leaves otps, rate_limits
\* and idempotency unchanged.
C3_ReplayByCreatedAt ==
    [][\A p \in Procs :
          LET entry == idempotency[loc[p].idempotencyKey]
          IN (IdemStep(p) /\ loc[p].known
                /\ now - entry.created_at < tenMinutesInMs)
             => Replays(p, entry)]_vars

\* a replay answers 201 while the pair has an active row, for which a call
\* under a new key would be answered 409
C3_Witness ==
    /\ resp.call.op = "request"
    /\ resp.call.known
    /\ resp.call.seenEntry = "fresh"
    /\ resp.status = 201
    /\ ActiveRows(otps, resp.call.user_id, resp.call.purpose) # {}

\* C4: a request that overlapped a request with the same key and arguments,
\* which was answered with something else than a 500, is answered with the
\* same status and body.
C4_SameKeySameAnswer ==
    ( /\ resp.call.op = "request"
      /\ resp.call.twinResp # NoOutcome
      /\ resp.call.twinResp.status # 500 )
    => Answers(resp.call.twinResp.status, resp.call.twinResp.body)

\* the least whole number of seconds that is at least r milliseconds
SecondsLeft(r) == IF r <= 0 THEN 0 ELSE ((r - 1) \div 1000) + 1

\* C5: a request under an unused key, whose identity has 3 or more events in
\* the 15 minutes ending at its rate check, is answered 429
\* user_rate_limit_exceeded with the cooldown max(0, ceil((15 min - (now -
\* earliest event of that window)) / 1000)).
C5_UserLimitCooldown ==
    ( /\ resp.call.op = "request"
      /\ resp.call.seenEntry = "none"
      /\ ~resp.call.twin
      /\ resp.call.inWindow >= userLimit )
    => Answers(429,
               [reason |-> "user_rate_limit_exceeded",
                cooldown_seconds_remaining |->
                   SecondsLeft(cooldownPeriodMs
                               - (resp.call.cooldownAt - resp.call.earliest))])

\* C6: no request commits an event for an identity that already has 3
\* events in the 15 minutes ending now, so that no identity gets more than
\* 3 events in one window.
C6_AtMostThreePerWindow ==
    [][\A p \in Procs :
          (pc[p] = "r_commit" /\ pc'[p] = "r_cache")
          => CountInWindow(loc[p].user_id, now) < userLimit]_vars

\* C7: a wrong code against the active, unexpired row the handler read is
\* answered 401 wrong_code with 2 and then 1 attempts remaining, the third
\* one 401 attempts_exceeded with the row stored as locked; a locked row is
\* answered 410 code_used.
C7_AttemptLadder ==
    LET otp == resp.call.otp
        newAttempts == otp.attempts + 1
    IN /\ ( /\ resp.call.op = "verify"
            /\ otp.status = "active"
            /\ resp.call.now < otp.expires_at
            /\ otp.otp_code # resp.call.otp_code )
          => IF newAttempts >= maxAttempts
             THEN /\ Answers(401, [reason |-> "attempts_exceeded"])
                  /\ \A o \in Stored(otp) : o.status = "locked"
             ELSE Answers(401, [reason |-> "wrong_code",
                                attempts_remaining |-> maxAttempts - newAttempts])
       /\ (resp.call.op = "verify" /\ otp.status = "locked")
          => Answers(410, [reason |-> "code_used"])

\* C8: a verification that reads an active row past its expires_at is
\* answered 410 code_expired and leaves the row stored as expired; no
\* verification past expires_at is answered 200.
C8_ExpiredIsRejected ==
    LET otp == resp.call.otp
    IN /\ ( /\ resp.call.op = "verify"
            /\ otp.status = "active"
            /\ otp.expires_at < resp.call.now )
          => /\ Answers(410, [reason |-> "code_expired"])
             /\ \A o \in Stored(otp) : o.status = "expired"
       /\ (resp.call.op = "verify" /\ resp.status = 200)
          => ~(otp.expires_at < resp.call.now)

\* C9: of two overlapping verifications with the correct code of one active,
\* unexpired row, which both read that row, one is answered 200 and the
\* other 410 code_used.
C9_OneVerifierWins ==
    ( /\ resp.call.op = "verify"
      /\ resp.call.twinResp # NoOutcome
      /\ resp.call.target # NoRow
      /\ resp.call.otp.id = resp.call.target.id
      /\ resp.call.twinResp.read = resp.call.target.id
      /\ resp.call.target.otp_code = resp.call.otp_code
      /\ now < resp.call.target.expires_at )
    => \/ /\ resp.status = 200
          /\ resp.call.twinResp.status = 410
          /\ resp.call.twinResp.body = [reason |-> "code_used"]
       \/ /\ Answers(410, [reason |-> "code_used"])
          /\ resp.call.twinResp.status = 200

\* C10: when a request is answered 500, the otps row it inserted is not
\* stored.
C10_FailureLeavesNoRow ==
    (resp.call.op = "request" /\ resp.status = 500)
    => Stored(resp.call.row) = {}

\* C11: a request that finds under its key an entry stored 10 minutes ago
\* or earlier, and overlaps no other call on its pair, is answered 201, 409
\* or 429 as a request under an unused key would be.
C11_StaleKeyIsEvaluated ==
    ( /\ resp.call.op = "request"
      /\ resp.call.seenEntry = "stale"
      /\ ~resp.call.met )
    => resp.status \in {201, 409, 429}

\* C12: a verification with the code of the pair's active, unexpired row,
\* which reads that row while no other call on the pair is in flight, is
\* answered 200 and leaves the row stored as used, whatever earlier rows the
\* pair has.
C12_CorrectCodeVerifies ==
    ( /\ resp.call.op = "verify"
      /\ ~resp.call.met
      /\ resp.call.target # NoRow
      /\ resp.call.otp.id = resp.call.target.id
      /\ resp.call.target.otp_code = resp.call.otp_code
      /\ now < resp.call.target.expires_at )
    => /\ Answers(200, [message |-> "OTP verified successfully."])
       /\ \A o \in Stored(resp.call.target) : o.status = "used"

\* C13: no request commits a row of otps for a pair that already has a row,
\* so that a pair never has more than one row, whatever its status.
C13_OneRowPerPair ==
    [][\A p \in Procs :
          (pc[p] = "r_commit" /\ pc'[p] = "r_cache")
          => PairRows(otps, loc[p].user_id, loc[p].purpose) = {}]_vars

\* C14: a verification that reads an active row at the instant now =
\* expires_at, and does not fail, is answered 410 code_expired and leaves
\* the row stored as expired, whatever code it submits.
C14_ExpiredAtTheInstant ==
    LET otp == resp.call.otp
    IN ( /\ resp.call.op = "verify"
         /\ otp.status = "active"
         /\ resp.call.now = otp.expires_at
         /\ resp.status # 500 )
       => /\ Answers(410, [reason |-> "code_expired"])
          /\ \A o \in Stored(otp) : o.status = "expired"

\* the statuses a row never leaves
Terminal == {"used", "expired", "locked"}

\* C15: no step changes or removes a row of otps whose status is used,
\* expired or locked, and a verification that read such a row is answered
\* 410 code_used.
C15_TerminalIsAbsorbing ==
    [][/\ \A r \in otps : r.status \in Terminal => r \in otps'
       /\ (resp'.call.op = "verify" /\ resp'.call.otp.status \in Terminal)
          => (resp'.status = 410 /\ resp'.body = [reason |-> "code_used"])]_vars

\* a verification read a used, expired or locked row, which is still stored
\* as it was read, and is answered 410
C15_Witness ==
    /\ resp.call.op = "verify"
    /\ resp.call.otp.status \in Terminal
    /\ resp.call.otp \in otps
    /\ resp.status = 410

\* the rows of rate_limits of user u, counted
EventsOf(u) == Cardinality({i \in DOMAIN rate_limits : rate_limits[i].user_id = u})

\* C16: in every committed state each identity has as many rows in
\* rate_limits as in otps (the two INSERTs of an issuance commit together or
\* not at all), and a request answered 409, 429 or by a replay has inserted
\* no rate_limits row.
C16_OneEventPerRecord ==
    /\ \A u \in Users : EventsOf(u) = Cardinality({r \in otps : r.user_id = u})
    /\ ( /\ resp.call.op = "request"
         /\ resp.status \in {409, 429} \/ resp.call.seenEntry = "fresh" )
       => resp.call.event = NoEvent

\* a request is answered 409 while the log holds the one event of the one
\* record issued before
C16_Witness ==
    /\ resp.call.op = "request"
    /\ resp.status = 409
    /\ Len(rate_limits) = 1
    /\ Cardinality(otps) = 1

\* C17: a request that passes both rate limits and finds an active row for
\* its pair, under a key that is unused or holds an entry stored 10 minutes
\* ago or earlier, and with no call with its arguments in flight, is
\* answered 409, has inserted no otps row and no rate_limits row, and leaves
\* the 409 and its body stored under its key.
C17_ConflictIsCached ==
    LET entry == idempotency[resp.call.idempotencyKey]
        body == [reason |-> "An active OTP already exists."]
    IN ( /\ resp.call.op = "request"
         /\ resp.call.status = 409
         /\ resp.call.seenEntry \in {"none", "stale"}
         /\ ~resp.call.twin )
       => /\ Answers(409, body)
          /\ resp.call.row = NoRow
          /\ resp.call.event = NoEvent
          /\ entry.response_status_code = 409
          /\ entry.returned = body

\* C18: in the 201 a request is answered with after issuing,
\* remaining_user_requests is 2 minus the rows its user SELECT would return when its own rate_limits
\* row is inserted, and remaining_ip_requests is 7 minus the same for its
\* origin.
C18_RemainingAtRecord ==
    ( /\ resp.call.op = "request"
      /\ resp.call.seenEntry # "fresh"
      /\ resp.status = 201 )
    => /\ resp.body.remaining_user_requests = 2 - resp.call.userAtRecord
       /\ resp.body.remaining_ip_requests = 7 - resp.call.ipAtRecord

\* C19: a request for a pair whose active row is past its expires_at, which
\* passes its rate limits while no other call on the pair is in flight,
\* under a key that is unused or holds an entry stored 10 minutes ago or
\* earlier, is answered 409 and leaves the row stored as it was.
C19_ExpiredActiveBlocks ==
    ( /\ resp.call.op = "request"
      /\ resp.call.seenEntry \in {"none", "stale"}
      /\ ~resp.call.met
      /\ resp.call.target # NoRow
      /\ resp.call.target.expires_at < resp.call.cooldownAt
      /\ resp.status # 429 )
    => /\ Answers(409, [reason |-> "An active OTP already exists."])
       /\ resp.call.target \in otps

====
